---- MODULE Spec2Model ----
(***************************************************************************)
(* Multistage rocket sizing (System/sizing/sizing.py): the Stage and       *)
(* Rocket classes, the objective and constraint functions built on         *)
(* Rocket.calc, and the optimizer driver of __main__.                      *)
(*                                                                         *)
(* Numbers.  A Python float is modelled by an exact rational [n, d] in     *)
(* lowest terms with d > 0.  The results of a numpy division by zero are   *)
(* [n |-> 1, d |-> 0] (inf), [n |-> -1, d |-> 0] (-inf) and                *)
(* [n |-> 0, d |-> 0] (nan).                                               *)
(*                                                                         *)
(* Velocities.  A velocity v (stage deltaV, deltaV_sum, target_deltaV and  *)
(* the value returned by Rocket.deltaV) is carried as the number           *)
(* exp(v / (IspUnit * g0)), which is rational whenever the mass ratios are *)
(* and every Isp is a whole multiple of IspUnit.  With u = IspUnit * g0:   *)
(*     Isp * g0 * log(x)  is carried as  x ^ (Isp / IspUnit),              *)
(*     v + w              is carried as  exp(v/u) * exp(w/u),              *)
(*     v - w              is carried as  exp(v/u) / exp(w/u),              *)
(*     v < w              holds iff      exp(v/u) < exp(w/u),              *)
(* so 0 m/s is carried as 1, -inf as 0, +inf as inf and nan as nan.        *)
(***************************************************************************)
EXTENDS Integers, Sequences, FiniteSets, TLC

(***************************************************************************)
(* Bounds of the model.                                                    *)
(***************************************************************************)
\* propellant entries of a vector range over 0 .. MaxProp [kg]
MaxProp == 1
\* the entries of the points the solver evaluates range over 1 .. MaxSolverProp
MaxSolverProp == 2
\* the settings files loaded have sections "k段" for k within 1 .. MaxSection
MaxSection == 3

(***************************************************************************)
(* Float arithmetic on exact rationals.                                    *)
(***************************************************************************)
Abs(i) == IF i < 0 THEN -i ELSE i

Sign(i) == IF i < 0 THEN -1 ELSE IF i > 0 THEN 1 ELSE 0

RECURSIVE GCD(_, _)
GCD(a, b) == IF b = 0 THEN a ELSE GCD(b, a % b)

\* the float n/d; d = 0 gives inf, -inf or nan by the sign of n
Q(n, d) ==
    IF d = 0 THEN [n |-> Sign(n), d |-> 0]
    ELSE LET g == GCD(Abs(n), Abs(d))
         IN  [n |-> Sign(d) * (n \div g), d |-> Abs(d) \div g]

Int2Q(i) == [n |-> i, d |-> 1]

QInf == [n |-> 1, d |-> 0]
QNaN == [n |-> 0, d |-> 0]

IsNaN(a) == a.d = 0 /\ a.n = 0
IsZero(a) == a.d > 0 /\ a.n = 0

\* a + b, a - b on finite floats
QAdd(a, b) ==
    LET g == GCD(a.d, b.d)
    IN  Q(a.n * (b.d \div g) + b.n * (a.d \div g), (a.d \div g) * b.d)

QNeg(a) == [n |-> -a.n, d |-> a.d]

QSub(a, b) == QAdd(a, QNeg(b))

\* a * b with IEEE results for inf and nan operands (0 * inf = nan); the
\* cross-reduced product of two fractions in lowest terms is in lowest terms
QMul(a, b) ==
    IF a.d = 0 \/ b.d = 0
    THEN IF IsNaN(a) \/ IsNaN(b) \/ a.n = 0 \/ b.n = 0 THEN QNaN
         ELSE Q(Sign(a.n) * Sign(b.n), 0)
    ELSE LET g1 == GCD(Abs(a.n), b.d)
             g2 == GCD(Abs(b.n), a.d)
         IN  [n |-> (a.n \div g1) * (b.n \div g2),
              d |-> (a.d \div g2) * (b.d \div g1)]

\* a / b as numpy computes it on finite floats: x/0 is inf or -inf, 0/0 is nan
QDiv(a, b) ==
    IF b.n = 0 THEN Q(a.n, 0)
    ELSE QMul(a, [n |-> Sign(b.n) * b.d, d |-> Abs(b.n)])

\* a < b; every comparison with nan is false
QLess(a, b) ==
    IF IsNaN(a) \/ IsNaN(b) THEN FALSE
    ELSE IF a.d = 0 THEN a.n < 0 /\ b # a
    ELSE IF b.d = 0 THEN b.n > 0
    ELSE a.n * b.d < b.n * a.d

RECURSIVE IntPow(_, _)
IntPow(b, k) == IF k = 0 THEN 1 ELSE b * IntPow(b, k - 1)

\* Long division without overflow: x = [q, r] stands for q * d + r with
\* 0 <= r < d.  Twice x, x plus y, and ten times the remainder r.
DivDouble(x, d) ==
    IF x.r >= d - x.r THEN [q |-> 2 * x.q + 1, r |-> x.r - (d - x.r)]
    ELSE [q |-> 2 * x.q, r |-> 2 * x.r]

DivAdd(x, y, d) ==
    IF x.r >= d - y.r THEN [q |-> x.q + y.q + 1, r |-> x.r - (d - y.r)]
    ELSE [q |-> x.q + y.q, r |-> x.r + y.r]

DivTimes10(r, d) ==
    DivDouble(DivAdd(DivDouble(DivDouble([q |-> 0, r |-> r], d), d),
                     [q |-> 0, r |-> r], d), d)

\* the long division of r / d, 0 <= r < d, carried on for k decimal places
\* after the digits acc: the digits and the remainder
RECURSIVE AroundDigits(_, _, _, _)
AroundNextDigit(acc, t, d, k) == AroundDigits(acc * 10 + t.q, t.r, d, k - 1)

AroundDigits(acc, r, d, k) ==
    IF k = 0 THEN [q |-> acc, r |-> r]
    ELSE AroundNextDigit(acc, DivTimes10(r, d), d, k)

\* the digits qr.q rounded half to even by the remainder qr.r of d, over p
AroundRound(qr, d, p) ==
    Q(qr.q + (IF qr.r > d - qr.r \/ (qr.r = d - qr.r /\ qr.q % 2 = 1)
              THEN 1 ELSE 0), p)

\* np.around(x, decimals): round half to even at the given decimal place
Around(x, decimals) ==
    IF x.d = 0 THEN x
    ELSE AroundRound(AroundDigits(x.n \div x.d, x.n % x.d, x.d, decimals),
                     x.d, IntPow(10, decimals))

(***************************************************************************)
(* Velocities, carried as exp(v / (IspUnit * g0)).                         *)
(***************************************************************************)
\* the unit [s] of which every Isp of the settings files is a whole multiple
IspUnit == 300

\* 0 m/s
VZero == Int2Q(1)

\* v + w
VAdd(v, w) == QMul(v, w)

\* v - w
VSub(v, w) ==
    IF IsNaN(v) \/ IsNaN(w) THEN QNaN
    ELSE IF w.d = 0 THEN QMul(v, Int2Q(0))
    ELSE IF w.n = 0 THEN QMul(v, QInf)
    ELSE QMul(v, Q(w.d, w.n))

\* v < w
VLess(v, w) == QLess(v, w)

\* abs(v)
VAbs(v) ==
    IF IsNaN(v) THEN QNaN
    ELSE IF QLess(v, VZero) THEN VSub(VZero, v)
    ELSE v

RECURSIVE QPow(_, _)
QPow(x, k) == IF k = 0 THEN Int2Q(1) ELSE QMul(x, QPow(x, k - 1))

\* Isp * g0 * np.log(x) for an Isp that is a positive multiple of IspUnit:
\* nan for x < 0 and nan, -inf for x = 0, +inf for x = inf
IspG0Log(Isp, x) ==
    IF IsNaN(x) \/ QLess(x, Int2Q(0)) THEN QNaN
    ELSE QPow(x, Isp \div IspUnit)

(***************************************************************************)
(* class Stage                                                             *)
(***************************************************************************)
\* an attribute that has not been assigned yet (reading it raises AttributeError)
Unset == [unset |-> TRUE]

\* standard gravity 9.80665 [m/s2]
g0 == Q(196133, 20000)

\* atmospheric pressure [Pa]
Pe == 101300

Stage__init__(stracture_ratio, propellant_consumption_rate, jettison, Isp, thrust, number_of_engine, nozzle_exit_area, use_SeaLevel) ==
    [s |-> stracture_ratio,
     pc_rate |-> QDiv(propellant_consumption_rate, Int2Q(100)),
     jettison |-> jettison,
     Isp |-> Isp,
     thrust |-> thrust,
     num_engine |-> number_of_engine,
     nozzle_exit_area |-> nozzle_exit_area,
     use_SeaLevel |-> use_SeaLevel,
     m0 |-> Int2Q(0),
     mf |-> Int2Q(0),
     mass_stracture |-> Int2Q(0),
     upper_mass |-> Int2Q(0),
     burn_time |-> Int2Q(0),
     acc_ignition |-> Int2Q(0),
     acc_cutoff |-> Int2Q(0),
     consumpsion_propellant |-> Int2Q(0),
     residual_propellant |-> Int2Q(0),
     thrust_SL |-> Int2Q(0),
     mdot |-> Int2Q(0),
     mass_prop |-> Unset,
     deltaV |-> Unset,
     Isp_SL |-> Unset]

set_upper_mass(self, upper_mass) == [self EXCEPT !.upper_mass = upper_mass]

\* Stage.get_deltaV, statement by statement: each operator takes the stage
\* as the statements before it left it and gives the stage after the
\* assignment.
Assign_mass_prop(self, propellant) == [self EXCEPT !.mass_prop = propellant]

\* the consumed propellant taken with the wrong sign
Assign_consumpsion_propellant_Negated(self) ==
    [self EXCEPT !.consumpsion_propellant =
                     QNeg(QMul(self.mass_prop, self.pc_rate))]

Assign_consumpsion_propellant(self) ==
    [self EXCEPT !.consumpsion_propellant = QMul(self.mass_prop, self.pc_rate)]

Assign_residual_propellant(self) ==
    [self EXCEPT !.residual_propellant =
                     QSub(self.mass_prop, self.consumpsion_propellant)]

Assign_mdot(self) ==
    [self EXCEPT !.mdot =
                     QDiv(QDiv(QMul(self.thrust, Int2Q(1000)), self.Isp), g0)]

Assign_burn_time(self) ==
    [self EXCEPT !.burn_time =
                     QDiv(self.consumpsion_propellant,
                          QMul(self.mdot, self.num_engine))]

\* the structural mass taken as p * (1 - s), not divided by s
Assign_mass_stracture_Undivided(self) ==
    [self EXCEPT !.mass_stracture = QMul(self.mass_prop, QSub(Int2Q(1), self.s))]

Assign_mass_stracture(self) ==
    [self EXCEPT !.mass_stracture =
                     QDiv(QMul(self.mass_prop, QSub(Int2Q(1), self.s)), self.s)]

\* the burnout mass added to the one the stage already has
Assign_mf_Accumulated(self) ==
    [self EXCEPT !.mf =
                     QAdd(self.mf,
                          QAdd(QAdd(QAdd(self.upper_mass, self.mass_stracture),
                                    self.residual_propellant), self.jettison))]

Assign_mf(self) ==
    [self EXCEPT !.mf =
                     QAdd(QAdd(QAdd(self.upper_mass, self.mass_stracture),
                               self.residual_propellant), self.jettison)]

\* the consumed propellant taken off instead of added
Assign_m0_Subtracted(self) ==
    [self EXCEPT !.m0 = QSub(self.mf, self.consumpsion_propellant)]

Assign_m0(self) ==
    [self EXCEPT !.m0 = QAdd(self.mf, self.consumpsion_propellant)]

\* the mass ratio taken upside down
Assign_deltaV_Inverted(self) ==
    [self EXCEPT !.deltaV = IspG0Log(self.Isp.n, QDiv(self.mf, self.m0))]

Assign_deltaV(self) ==
    [self EXCEPT !.deltaV = IspG0Log(self.Isp.n, QDiv(self.m0, self.mf))]

\* the pressure thrust added to the vacuum thrust
Assign_thrust_SL_Added(self) ==
    [self EXCEPT !.thrust_SL =
        IF self.use_SeaLevel
        THEN QAdd(self.thrust,
                  QDiv(QMul(self.nozzle_exit_area, Int2Q(Pe)), Int2Q(1000)))
        ELSE self.thrust]

Assign_thrust_SL(self) ==
    [self EXCEPT !.thrust_SL =
        IF self.use_SeaLevel
        THEN QSub(self.thrust,
                  QDiv(QMul(self.nozzle_exit_area, Int2Q(Pe)), Int2Q(1000)))
        ELSE self.thrust]

Assign_Isp_SL(self) ==
    [self EXCEPT !.Isp_SL =
                     QDiv(QDiv(QMul(self.thrust_SL, Int2Q(1000)), self.mdot), g0)]

Assign_acc_ignition(self) ==
    [self EXCEPT !.acc_ignition =
                     QDiv(QMul(QMul(self.num_engine, self.thrust_SL), Int2Q(1000)),
                          QMul(self.m0, g0))]

Assign_acc_cutoff(self) ==
    [self EXCEPT !.acc_cutoff =
                     QDiv(QMul(QMul(self.num_engine, self.thrust), Int2Q(1000)),
                          QMul(self.mf, g0))]

\* what a call returns when it returns nothing, or raises
None == [none |-> TRUE]

\* a method raising err, or returning ret, with the object as it leaves it
Raise(self, err) == [self |-> self, err |-> err, ret |-> None]
Return(self, ret) == [self |-> self, err |-> "none", ret |-> ret]

\* lines 99-107
Masses(self, propellant) ==
    Assign_m0(Assign_mf(Assign_mass_stracture(Assign_burn_time(Assign_mdot(
        Assign_residual_propellant(Assign_consumpsion_propellant(
            Assign_mass_prop(self, propellant))))))))

\* lines 115-118
Accelerations(self, numpy) ==
    IF ~numpy /\ IsZero(self.m0) THEN Raise(self, "ZeroDivisionError")
    ELSE Return(Assign_acc_cutoff(Assign_acc_ignition(self)), self.deltaV)

\* lines 108-118
Velocity(self, numpy) ==
    IF ~numpy /\ IsZero(self.mf) THEN Raise(self, "ZeroDivisionError")
    ELSE Accelerations(Assign_Isp_SL(Assign_thrust_SL(Assign_deltaV(self))),
                       numpy)

\* Stage.get_deltaV(propellant).  numpy tells whether propellant is a numpy
\* float (an entry of an ndarray: a division by zero gives inf or nan) or a
\* Python number (a division by zero raises ZeroDivisionError and leaves the
\* attributes assigned so far).
get_deltaV(self, propellant, numpy) == Velocity(Masses(self, propellant), numpy)

\* Comparison of a carried velocity with a number of m/s.  v < ms m/s holds
\* iff the carrier is below exp(ms / (IspUnit * g0)); the exponential is
\* enclosed between FxExpLower and FxExpUpper, computed in fixed point with
\* FxScale units per 1 from the series sum of t^k / k!.
FxScale == 1000000

FxTerms == 20

\* floor(a * b / FxScale) for fixed-point a, b >= 0, without overflow
FxMul(a, b) ==
    (a \div 1000) * (b \div 1000)
    + ((a \div 1000) * (b % 1000) + (a % 1000) * (b \div 1000)
       + ((a % 1000) * (b % 1000)) \div 1000) \div 1000

\* floor(q * FxScale) for a rational q >= 0 with a denominator below 10^6
FxFloor(q) ==
    (q.n \div q.d) * FxScale
    + (((q.n % q.d) * 1000) \div q.d) * 1000
    + ((((q.n % q.d) * 1000) % q.d) * 1000) \div q.d

\* the terms k .. FxTerms of the series, every step rounded down
RECURSIVE FxSeriesLower(_, _, _)
FxSeriesLower(t, k, term) ==
    IF k > FxTerms THEN 0
    ELSE term + FxSeriesLower(t, k + 1, FxMul(term, t) \div (k + 1))

\* the terms k .. FxTerms of the series, every step rounded up, and a bound
\* on the rest of the series (at most the last term, as t / FxTerms < 1/2)
RECURSIVE FxSeriesUpper(_, _, _)
FxSeriesUpper(t, k, term) ==
    IF k > FxTerms THEN term
    ELSE term + FxSeriesUpper(t, k + 1, (FxMul(term, t) + k + 1) \div (k + 1))

\* ms / (IspUnit * g0) for a whole 0 <= ms < 10000
MsExponent(ms) == QDiv(Int2Q(ms), QMul(Int2Q(IspUnit), g0))

\* rationals below and above exp(ms / (IspUnit * g0))
FxExpLower(ms) == Q(FxSeriesLower(FxFloor(MsExponent(ms)), 0, FxScale), FxScale)
FxExpUpper(ms) ==
    Q(FxSeriesUpper(FxFloor(MsExponent(ms)) + 1, 0, FxScale), FxScale)

\* the carried velocity v is less than, more than ms m/s
MsBelow(v, ms) == QLess(v, FxExpLower(ms))
MsAbove(v, ms) == QLess(FxExpUpper(ms), v)

(***************************************************************************)
(* class Rocket                                                            *)
(***************************************************************************)
\* the empty string of an output cell
Blank == [str |-> ""]

\* the index label "%d段" % k of a stage row, and "全体" of the last row
StageLabel(k) == [dan |-> k]
ZentaiLabel == [zentai |-> TRUE]

\* a Rocket object before __init__ has assigned anything
NewRocket ==
    [setting |-> Unset, num_stage |-> Unset, payload |-> Unset,
     target_deltaV |-> Unset, stages |-> Unset,
     output_a |-> Unset, index_a |-> Unset, deltaV_sum |-> Unset]

\* A parsed settings file (self.setting): setting.dan maps k to the section
\* named "k段", for the k that have one; setting.others holds the numbers of
\* the sections whose name begins with digits and 段 but is not "k段" of
\* its number ("3段目", "03段"); setting.zentai is the section "全体", or
\* Unset when the file has none.  The entry 目標deltaV[km/s] is carried as the
\* velocity (in m/s) it denotes, so the factor 1000 of line 208 is part of
\* the carrier.
MaxOf(S) == CHOOSE m \in S : \A k \in S : k <= m

MinOf(S) == CHOOSE m \in S : \A k \in S : m <= k

\* the smallest section number taken
NumStageSmallest(setting) ==
    IF DOMAIN setting.dan \cup setting.others = {} THEN 0
    ELSE MinOf(DOMAIN setting.dan \cup setting.others)

\* lines 198-202: the largest number among the sections the pattern matches
NumStage(setting) == MaxOf(DOMAIN setting.dan \cup setting.others \cup {0})

\* lines 211-222: the number of stages appended, from stage i on, before a
\* section "k段" is missing or stage n is done
RECURSIVE StagesRead(_, _, _)
StagesRead(setting, n, i) ==
    IF i > n \/ i \notin DOMAIN setting.dan THEN i - 1
    ELSE StagesRead(setting, n, i + 1)

\* the exception Rocket.__init__ raises on the settings: configparser's
\* NoSectionError from the first get on a missing section (lines 206, 214)
Rocket__init__Error(setting) ==
    IF  \/ setting.zentai = Unset
        \/ StagesRead(setting, NumStage(setting), 1) < NumStage(setting)
    THEN "NoSectionError" ELSE "none"

\* lines 214-222: the Stage built from section "i段"
StageOfSection(sec) ==
    Stage__init__(sec.stracture_ratio, sec.consumption_rate, sec.jettison,
                  sec.Isp, sec.thrust, sec.num_engine, sec.nozzle_exit_area,
                  sec.in_atmosphere)

\* Rocket.__init__ once self.setting holds the parsed settings file: the
\* object as __init__ leaves it, also when it raises
Rocket__init__(self, setting) ==
    IF setting.zentai = Unset
    THEN [self EXCEPT !.setting = setting, !.num_stage = NumStage(setting)]
    ELSE [self EXCEPT !.setting = setting,
                      !.num_stage = NumStage(setting),
                      !.payload = setting.zentai.payload,
                      !.target_deltaV = setting.zentai.target_deltaV,
                      !.stages =
                          [i \in 1 .. StagesRead(setting, NumStage(setting), 1)
                              |-> StageOfSection(setting.dan[i])]]

\* the row of the output table that calc builds for one stage (lines 268-293);
\* np.around of a velocity is not computable on the carrier and is left out
OutputRow(sta) ==
    <<sta.deltaV,
      Around(sta.m0, 1),
      Around(sta.mf, 1),
      Around(QSub(sta.m0, sta.upper_mass), 1),
      Around(QSub(sta.mf, sta.upper_mass), 1),
      Around(sta.upper_mass, 1),
      Around(sta.mass_prop, 1),
      Around(QMul(sta.pc_rate, Int2Q(100)), 1),
      Around(sta.consumpsion_propellant, 1),
      Around(sta.residual_propellant, 1),
      Around(sta.s, 3),
      Around(sta.mass_stracture, 1),
      Around(sta.jettison, 1),
      Blank,
      Around(sta.Isp, 1),
      sta.num_engine,
      Around(sta.thrust, 1),
      Around(sta.burn_time, 1),
      Around(sta.mdot, 1),
      Around(QMul(sta.mdot, sta.num_engine), 1),
      Around(sta.Isp_SL, 1),
      Around(sta.thrust_SL, 1),
      Around(sta.nozzle_exit_area, 3),
      Around(sta.acc_ignition, 2),
      Around(sta.acc_cutoff, 2)>>

\* the last row of the output table (lines 301-303)
ZentaiRow(deltaV_sum, payload) ==
    <<deltaV_sum>> \o [i \in 1 .. 12 |-> Blank] \o <<payload>>
                   \o [i \in 1 .. 11 |-> Blank]

Reverse(seq) == [i \in 1 .. Len(seq) |-> seq[Len(seq) + 1 - i]]

\* a check that lets longer vectors through
ShapeAtLeast(self, prop) == Len(prop) >= self.num_stage

\* the shape check of calc (line 254)
ShapeOK(self, prop) == Len(prop) = self.num_stage

\* the stages visited bottom stage first
CalcOrderBottomUp(n) == [j \in 1 .. n |-> j]

\* the order in which calc visits the stages (line 258): top stage first
CalcOrder(n) == [j \in 1 .. n |-> n + 1 - j]

\* the m0 of the stage above added to the upper mass the stage already has
UpperMassAdded(self, k) ==
    IF k = Len(self.stages) THEN self.payload
    ELSE QAdd(self.stages[k].upper_mass, self.stages[k + 1].m0)

\* the payload left out of the top stage's upper mass
UpperMassNoPayload(self, k) ==
    IF k = Len(self.stages) THEN Int2Q(0) ELSE self.stages[k + 1].m0

\* the payload taken as the upper mass of every stage
UpperMassPayloadOnly(self, k) == self.payload

\* the upper mass calc gives stage k (lines 260-263)
UpperMassOf(self, k) ==
    IF k = Len(self.stages) THEN self.payload ELSE self.stages[k + 1].m0

\* the accumulators set up by the first pass only
CalcResetOnce(self) ==
    IF self.output_a = Unset
    THEN [self EXCEPT !.output_a = <<>>, !.index_a = <<>>, !.deltaV_sum = VZero]
    ELSE self

\* the accumulators at the start of a pass (lines 255-257)
CalcReset(self) ==
    [self EXCEPT !.output_a = <<>>, !.index_a = <<>>, !.deltaV_sum = VZero]

\* the stage's deltaV assigned to the sum instead of added
CalcRecordOverwrite(self, k, sta, dV) ==
    [self EXCEPT !.stages[k] = sta,
                 !.deltaV_sum = dV,
                 !.output_a = Append(self.output_a, OutputRow(sta)),
                 !.index_a = Append(self.index_a, StageLabel(k))]

\* lines 265-295: the stage's deltaV added and its row and label appended
CalcRecord(self, k, sta, dV) ==
    [self EXCEPT !.stages[k] = sta,
                 !.deltaV_sum = VAdd(self.deltaV_sum, dV),
                 !.output_a = Append(self.output_a, OutputRow(sta)),
                 !.index_a = Append(self.index_a, StageLabel(k))]

\* the loop of calc from the j-th visited stage on (lines 258-295); it
\* stops at an exception
RECURSIVE CalcLoop(_, _, _, _, _)
CalcStage(self, order, j, prop, numpy, g) ==
    IF g.err # "none"
    THEN Raise([self EXCEPT !.stages[order[j]] = g.self], g.err)
    ELSE CalcLoop(CalcRecord(self, order[j], g.self, g.ret),
                  order, j + 1, prop, numpy)

CalcLoop(self, order, j, prop, numpy) ==
    IF j > Len(order) THEN Return(self, None)
    ELSE CalcStage(self, order, j, prop, numpy,
                   get_deltaV(set_upper_mass(self.stages[order[j]],
                                             UpperMassOf(self, order[j])),
                              prop[order[j]], numpy))

\* the rows left in the order they were computed
CalcTableAsComputed(self) ==
    [self EXCEPT !.output_a = Append(self.output_a,
                                     ZentaiRow(self.deltaV_sum, self.payload)),
                 !.index_a = Append(self.index_a, ZentaiLabel)]

\* lines 298-305: the rows put in stage order and the last row appended
CalcTable(self) ==
    [self EXCEPT !.output_a = Append(Reverse(self.output_a),
                                     ZentaiRow(self.deltaV_sum, self.payload)),
                 !.index_a = Append(Reverse(self.index_a), ZentaiLabel)]

CalcFinish(l) == IF l.err # "none" THEN l ELSE Return(CalcTable(l.self), None)

\* the accumulators reset before the shape of the vector is checked
calc_ResetBeforeCheck(self, prop, numpy) ==
    IF ~ShapeOK(self, prop) THEN Raise(CalcReset(self), "AssertionError")
    ELSE CalcFinish(CalcLoop(CalcReset(self), CalcOrder(Len(self.stages)), 1,
                             prop, numpy))

\* Rocket.calc(prop)
calc(self, prop, numpy) ==
    IF ~ShapeOK(self, prop) THEN Raise(self, "AssertionError")
    ELSE CalcFinish(CalcLoop(CalcReset(self), CalcOrder(Len(self.stages)), 1,
                             prop, numpy))

\* the second pass of Rocket.deltaV from stage i on (lines 344-345)
RECURSIVE DeltaVLoop(_, _, _, _)
DeltaVStage(self, i, prop, numpy, g) ==
    IF g.err # "none" THEN Raise([self EXCEPT !.stages[i] = g.self], g.err)
    ELSE DeltaVLoop([self EXCEPT !.stages[i] = g.self,
                                 !.deltaV_sum = VAdd(self.deltaV_sum, g.ret)],
                    i + 1, prop, numpy)

DeltaVLoop(self, i, prop, numpy) ==
    IF i > Len(self.stages) THEN Return(self, None)
    ELSE DeltaVStage(self, i, prop, numpy,
                     get_deltaV(self.stages[i], prop[i], numpy))

\* the difference returned with its sign
DeltaVSigned(deltaV_sum, target_deltaV) == VSub(deltaV_sum, target_deltaV)

\* the value Rocket.deltaV returns (line 346)
DeltaVResult(deltaV_sum, target_deltaV) == VAbs(VSub(deltaV_sum, target_deltaV))

\* the sum of the first pass kept for the second
DeltaVResetSkipped(self) == self

\* the reset between the two passes of Rocket.deltaV (line 343)
DeltaVReset(self) == [self EXCEPT !.deltaV_sum = VZero]

DeltaVReturn(l) ==
    IF l.err # "none" THEN l
    ELSE Return(l.self, DeltaVResult(l.self.deltaV_sum, l.self.target_deltaV))

DeltaVAfterCalc(c, prop, numpy) ==
    IF c.err # "none" THEN c
    ELSE DeltaVReturn(DeltaVLoop(DeltaVReset(c.self), 1, prop, numpy))

\* Rocket.deltaV(prop)
deltaV(self, prop, numpy) == DeltaVAfterCalc(calc(self, prop, numpy), prop, numpy)

\* the m0 of the top stage returned
InitialMassOfTopStage(c) ==
    IF c.err # "none" THEN c
    ELSE Return(c.self, c.self.stages[Len(c.self.stages)].m0)

InitialMassAfterCalc(c) ==
    IF c.err # "none" THEN c ELSE Return(c.self, c.self.stages[1].m0)

\* Rocket.initial_mass(prop)
initial_mass(self, prop, numpy) == InitialMassAfterCalc(calc(self, prop, numpy))

LimitStractureAfterCalc(c, limit) ==
    IF c.err # "none" THEN c
    ELSE IF Len(c.self.stages) < 2 THEN Raise(c.self, "IndexError")
    ELSE Return(c.self, QSub(c.self.stages[2].mass_stracture, limit))

\* Rocket.limit_stracture(prop, limit): reads the second stage, stages[1]
limit_stracture(self, prop, limit, numpy) ==
    LimitStractureAfterCalc(calc(self, prop, numpy), limit)

LimitStracture1AfterCalc(c, limit) ==
    IF c.err # "none" THEN c
    ELSE Return(c.self, QSub(c.self.stages[1].mass_stracture, limit))

\* Rocket.limit_stracture1(prop, limit): reads the first stage, stages[0]
limit_stracture1(self, prop, limit, numpy) ==
    LimitStracture1AfterCalc(calc(self, prop, numpy), limit)

LimitAcceralation1AfterCalc(c, limit_acc) ==
    IF c.err # "none" THEN c
    ELSE Return(c.self, QSub(limit_acc, c.self.stages[1].acc_cutoff))

\* Rocket.limit_acceralation1(prop, limit_acc): reads stages[0]
limit_acceralation1(self, prop, limit_acc, numpy) ==
    LimitAcceralation1AfterCalc(calc(self, prop, numpy), limit_acc)

\* the ignition acceleration read instead of the one at cutoff
LimitAcceralation2Ignition(c, limit_acc) ==
    IF c.err # "none" THEN c
    ELSE IF Len(c.self.stages) < 2 THEN Raise(c.self, "IndexError")
    ELSE Return(c.self, QSub(limit_acc, c.self.stages[2].acc_ignition))

LimitAcceralation2AfterCalc(c, limit_acc) ==
    IF c.err # "none" THEN c
    ELSE IF Len(c.self.stages) < 2 THEN Raise(c.self, "IndexError")
    ELSE Return(c.self, QSub(limit_acc, c.self.stages[2].acc_cutoff))

\* Rocket.limit_acceralation2(prop, limit_acc): reads stages[1]
limit_acceralation2(self, prop, limit_acc, numpy) ==
    LimitAcceralation2AfterCalc(calc(self, prop, numpy), limit_acc)

\* the structural-floor method the class has for stage i (i = 1 is
\* stages[0]): limit_stracture1 and limit_stracture are the only ones, and
\* looking up any other raises AttributeError
structural_floor(self, i, prop, limit, numpy) ==
    IF i = 1 THEN limit_stracture1(self, prop, limit, numpy)
    ELSE IF i = 2 THEN limit_stracture(self, prop, limit, numpy)
    ELSE Raise(self, "AttributeError")

\* the acceleration-ceiling method the class has for stage i:
\* limit_acceralation1 and limit_acceralation2 are the only ones
acceleration_ceiling(self, i, prop, limit_acc, numpy) ==
    IF i = 1 THEN limit_acceralation1(self, prop, limit_acc, numpy)
    ELSE IF i = 2 THEN limit_acceralation2(self, prop, limit_acc, numpy)
    ELSE Raise(self, "AttributeError")

\* Rocket.display(): the table it prints, index and rows
display(self) == [index |-> self.index_a, rows |-> self.output_a]

\* the section is in the parsed file; a section is named by its label,
\* ZentaiLabel or StageLabel(k)
has_section(setting, section) ==
    IF section = ZentaiLabel THEN setting.zentai # Unset
    ELSE section.dan \in DOMAIN setting.dan

\* self.setting.set(section, key, str(value)) (line 334) on a section the
\* file has: the option holds the text of value, which getfloat reads back
\* as value (value ranges over floats)
SettingSet(setting, section, key, value) ==
    IF section = ZentaiLabel
    THEN [setting EXCEPT !.zentai[key] = value]
    ELSE [setting EXCEPT !.dan[section.dan][key] = value]

\* self.__init__(self.setting_file, reload = True) (lines 186-187, 193-249):
\* self.setting is kept and every attribute __init__ assigns is assigned
\* again; output_a, index_a and deltaV_sum are not among them
Reloaded(self) == Rocket__init__(self, self.setting)

Reload(self) ==
    IF Rocket__init__Error(self.setting) = "none"
    THEN Return(Reloaded(self), None)
    ELSE Raise(Reloaded(self), Rocket__init__Error(self.setting))

\* Rocket.change_setting_value(section, key, value); configparser's set
\* raises NoSectionError for a section the file does not have
change_setting_value(self, section, key, value) ==
    IF ~has_section(self.setting, section) THEN Raise(self, "NoSectionError")
    ELSE Reload([self EXCEPT !.setting =
                                 SettingSet(self.setting, section, key, value)])

\* the payload of the assembly left as it is
Assign_payload_Kept(self, payload) == self

\* self.payload = payload (line 352)
Assign_payload(self, payload) == [self EXCEPT !.payload = payload]

\* Rocket.get_deltaV_from_payload(payload, prop)
get_deltaV_from_payload(self, payload, prop, numpy) ==
    deltaV(Assign_payload(self, payload), prop, numpy)

(***************************************************************************)
(* Settings files and propellant vectors the model draws from.             *)
(***************************************************************************)
\* one section "N段": structural ratio, consumption rate [%], jettisoned
\* mass, Isp(vac), thrust(vac), engines, nozzle exit area, ignition within
\* the atmosphere
Section(s, pc, jet, isp, thr, num, area, atm) ==
    [stracture_ratio |-> s, consumption_rate |-> pc, jettison |-> jet,
     Isp |-> isp, thrust |-> thr, num_engine |-> num,
     nozzle_exit_area |-> area, in_atmosphere |-> atm]

StageSections ==
    { Section(Q(1, 2), Int2Q(100), Int2Q(0), Int2Q(300), Int2Q(1), Int2Q(1),
              Int2Q(0), FALSE),
      Section(Int2Q(1), Int2Q(100), Int2Q(0), Int2Q(600), Int2Q(1), Int2Q(2),
              Q(5, 1013), TRUE),
      Section(Q(1, 2), Int2Q(50), Int2Q(1), Int2Q(300), Int2Q(1), Int2Q(1),
              Q(5, 1013), FALSE) }

Payloads == {Int2Q(0), Int2Q(1)}

\* target velocity IspUnit * g0 * ln(2) [m/s]
Targets == {Int2Q(2)}

\* a three-stage vehicle
ThreeStages ==
    << Section(Q(1, 2), Int2Q(50), Int2Q(1), Int2Q(300), Int2Q(1), Int2Q(1),
               Q(5, 1013), FALSE),
       Section(Int2Q(1), Int2Q(100), Int2Q(0), Int2Q(600), Int2Q(1), Int2Q(2),
               Q(5, 1013), TRUE),
       Section(Q(1, 2), Int2Q(100), Int2Q(0), Int2Q(300), Int2Q(1), Int2Q(1),
               Int2Q(0), FALSE) >>

\* settings files: every one- and two-stage vehicle over StageSections and
\* Payloads, and the three-stage vehicle with a payload of 1 kg
Settings ==
    [zentai : [payload : Payloads, target_deltaV : Targets],
     dan : [1 .. 1 -> StageSections] \cup [1 .. 2 -> StageSections],
     others : {{}}]
    \cup {[zentai |-> [payload |-> Int2Q(1), target_deltaV |-> Int2Q(2)],
           dan |-> ThreeStages, others |-> {}]}

\* propellant vectors for an n-stage rocket: every vector of the right
\* length, and one of a wrong length
PropVectors(n) ==
    [1 .. n -> 0 .. MaxProp] \cup {[i \in 1 .. n + 1 |-> 1]}

Floats(prop) == [i \in 1 .. Len(prop) |-> Int2Q(prop[i])]

(***************************************************************************)
(* State: the Rocket object; the last call on it (method, vector, the      *)
(* exception raised, the value returned, its relation to the call before); *)
(* the position of __main__, the solver's iterate, the result of minimize  *)
(* and the table shown by display(); the content of the settings file on   *)
(* disk that rocket.setting_file names.                                    *)
(***************************************************************************)
VARIABLES rocket, call, pc, x, result, shown, setting_file

vars == <<rocket, call, pc, x, result, shown, setting_file>>

Constructed(setting) ==
    /\ rocket = Rocket__init__(NewRocket, setting)
    /\ call = [op |-> "Rocket", prop |-> <<>>, err |-> "none", ret |-> None,
               prev |-> "none"]
    /\ x = Unset
    /\ result = Unset
    /\ shown = Unset
    /\ setting_file = setting

\* the module imported and a Rocket constructed by the importer
Init == \E setting \in Settings : Constructed(setting) /\ pc = "import"

\* how a call relates to the call before it: "none" when it is the first
\* one on the rocket, "same" when the call before it was the same method
\* with the same vector and returned, "other" otherwise
Previous(op, prop) ==
    IF call.op = "Rocket" THEN "none"
    ELSE IF call.op = op /\ call.prop = prop /\ call.err = "none" THEN "same"
    ELSE "other"

Outcome(op, prop, r) ==
    /\ rocket' = r.self
    /\ call' = [op |-> op, prop |-> prop, err |-> r.err, ret |-> r.ret,
                prev |-> Previous(op, prop)]

Calc(prop, numpy) ==
    /\ pc = "import"
    /\ \E r \in {calc(rocket, Floats(prop), numpy)} : Outcome("calc", prop, r)
    /\ UNCHANGED <<pc, x, result, shown, setting_file>>

DeltaV(prop, numpy) ==
    /\ pc = "import"
    /\ \E r \in {deltaV(rocket, Floats(prop), numpy)} : Outcome("deltaV", prop, r)
    /\ UNCHANGED <<pc, x, result, shown, setting_file>>

Next ==
    \/ \E prop \in PropVectors(rocket.num_stage), numpy \in BOOLEAN :
           Calc(prop, numpy)
    \/ \E prop \in PropVectors(rocket.num_stage), numpy \in BOOLEAN :
           DeltaV(prop, numpy)

Spec == Init /\ [][Next]_vars

(***************************************************************************)
(* __main__ (lines 391-413): the solver evaluates the objective and the    *)
(* two constraints on ndarrays of the length of prop0, at points within    *)
(* the bounds, in any order and number, and then returns its iterate.      *)
(***************************************************************************)
\* lower bound on the second stage's structural mass (line 401)
mass_limit_2nd == 821

\* the points the solver can evaluate: len(prop0) = 2 entries, each >= 1
SolverPoints == [1 .. 2 -> 1 .. MaxSolverProp]

\* line 398 done, minimize (line 407) entered
MainInit == \E setting \in Settings : Constructed(setting) /\ pc = "minimize"

\* an exception raised inside minimize leaves __main__ with a traceback
AfterEval(r) == IF r.err = "none" THEN "minimize" ELSE "raised"

\* the solver moves its iterate to v and evaluates the objective there
MinimizeObjective(v) ==
    /\ pc = "minimize"
    /\ \E r \in {initial_mass(rocket, Floats(v), TRUE)} :
           /\ Outcome("initial_mass", v, r)
           /\ pc' = AfterEval(r)
    /\ x' = v
    /\ UNCHANGED <<result, shown, setting_file>>

\* the solver evaluates the equality constraint (line 403) at v
MinimizeEq(v) ==
    /\ pc = "minimize"
    /\ \E r \in {deltaV(rocket, Floats(v), TRUE)} :
           /\ Outcome("deltaV", v, r)
           /\ pc' = AfterEval(r)
    /\ UNCHANGED <<x, result, shown, setting_file>>

\* the solver evaluates the inequality constraint (lines 405-406) at v
MinimizeIneq(v) ==
    /\ pc = "minimize"
    /\ \E r \in {limit_stracture(rocket, Floats(v), Int2Q(mass_limit_2nd), TRUE)} :
           /\ Outcome("limit_stracture", v, r)
           /\ pc' = AfterEval(r)
    /\ UNCHANGED <<x, result, shown, setting_file>>

\* minimize returns its iterate, with or without success (lines 407-411)
MinimizeReturn(success) ==
    /\ pc = "minimize"
    /\ x # Unset
    /\ result' = [x |-> x, success |-> success]
    /\ pc' = "display"
    /\ UNCHANGED <<rocket, call, x, shown, setting_file>>

\* rocket.display() (line 412)
Display ==
    /\ pc = "display"
    /\ shown' = display(rocket)
    /\ pc' = "to_excel"
    /\ UNCHANGED <<rocket, call, x, result, setting_file>>

\* rocket.to_excel() (line 413)
ToExcel ==
    /\ pc = "to_excel"
    /\ pc' = "done"
    /\ UNCHANGED <<rocket, call, x, result, shown, setting_file>>

MainNext ==
    \/ \E v \in SolverPoints : MinimizeObjective(v)
    \/ \E v \in SolverPoints : MinimizeEq(v)
    \/ \E v \in SolverPoints : MinimizeIneq(v)
    \/ \E success \in BOOLEAN : MinimizeReturn(success)
    \/ Display
    \/ ToExcel

MainSpec == MainInit /\ [][MainNext]_vars

(***************************************************************************)
(* The objective and the constraint functions (lines 360-383) evaluated by *)
(* a solver, on ndarrays, in any order, for any stage of the vehicle.      *)
(***************************************************************************)
\* the bounds passed to the constraint functions
Limits == {Int2Q(1)}

\* settings files of one stage, and of two stages of different sections
\* with a payload of 1 kg
ConsSettings ==
    {setting \in Settings :
        \/ Len(setting.dan) = 1
        \/ /\ Len(setting.dan) = 2
           /\ setting.dan[1] # setting.dan[2]
           /\ setting.zentai.payload = Int2Q(1)}

ConsInit ==
    \E setting \in ConsSettings : Constructed(setting) /\ pc = "constraints"

\* the settings file of the three-stage vehicle
ThreeStageSettings == {setting \in Settings : Len(setting.dan) = 3}

ThreeStageInit ==
    \E setting \in ThreeStageSettings :
        Constructed(setting) /\ pc = "constraints"

ConsOutcome(op, i, limit, prop, r) ==
    /\ rocket' = r.self
    /\ call' = [op |-> op, stage |-> i, limit |-> limit, prop |-> prop,
                err |-> r.err, ret |-> r.ret,
                prev |-> IF call.op = "Rocket" THEN "none" ELSE "other"]
    /\ UNCHANGED <<pc, x, result, shown, setting_file>>

InitialMass(prop) ==
    /\ pc = "constraints"
    /\ \E r \in {initial_mass(rocket, Floats(prop), TRUE)} :
           ConsOutcome("initial_mass", 1, None, prop, r)

StructuralFloor(i, prop, limit) ==
    /\ pc = "constraints"
    /\ \E r \in {structural_floor(rocket, i, Floats(prop), limit, TRUE)} :
           ConsOutcome("structural_floor", i, limit, prop, r)

AccelerationCeiling(i, prop, limit) ==
    /\ pc = "constraints"
    /\ \E r \in {acceleration_ceiling(rocket, i, Floats(prop), limit, TRUE)} :
           ConsOutcome("acceleration_ceiling", i, limit, prop, r)

ConsNext ==
    \/ \E prop \in PropVectors(rocket.num_stage) : InitialMass(prop)
    \/ \E i \in 1 .. rocket.num_stage, prop \in PropVectors(rocket.num_stage),
          limit \in Limits : StructuralFloor(i, prop, limit)
    \/ \E i \in 1 .. rocket.num_stage, prop \in PropVectors(rocket.num_stage),
          limit \in Limits : AccelerationCeiling(i, prop, limit)

ConsSpec == ConsInit /\ [][ConsNext]_vars

ThreeStageSpec == ThreeStageInit /\ [][ConsNext]_vars

(***************************************************************************)
(* Single stages resolved for whole amounts of propellant, the stage of    *)
(* the reference scenario among them.                                      *)
(***************************************************************************)
RefSections ==
    { Section(ratio, rate, jet, Int2Q(300), Int2Q(1), Int2Q(1), Int2Q(0), FALSE) :
        ratio \in {Q(9, 10), Q(1, 2)}, rate \in {Int2Q(100), Int2Q(50)},
        jet \in {Int2Q(0), Int2Q(1)} }

RefSettings ==
    [zentai : [payload : Payloads, target_deltaV : Targets],
     dan : [1 .. 1 -> RefSections], others : {{}}]

RefVectors == {<<1000>>, <<500>>, <<1>>}

RefInit == \E setting \in RefSettings : Constructed(setting) /\ pc = "import"

RefNext ==
    \/ \E prop \in RefVectors, numpy \in BOOLEAN : Calc(prop, numpy)
    \/ \E prop \in RefVectors, numpy \in BOOLEAN : DeltaV(prop, numpy)

RefSpec == RefInit /\ [][RefNext]_vars

(***************************************************************************)
(* Construction of a Rocket from settings files with any of the sections   *)
(* "1段" .. "MaxSection段" and "全体" present or missing.                  *)
(***************************************************************************)
SettingsFiles ==
    [zentai : [payload : {Int2Q(1)}, target_deltaV : Targets] \cup {Unset},
     dan : UNION {[S -> StageSections] : S \in SUBSET (1 .. MaxSection)},
     others : {{}, {1}, {MaxSection}, {MaxSection + 1}}]

\* the module imported, no Rocket constructed yet
LoadInit ==
    /\ rocket = NewRocket
    /\ call = [op |-> "import", prop |-> <<>>, err |-> "none", ret |-> None,
               prev |-> "none"]
    /\ pc = "load"
    /\ x = Unset
    /\ result = Unset
    /\ shown = Unset
    /\ setting_file = Unset

\* rocket = Rocket(file): an exception leaves no object
Load(file) ==
    /\ pc = "load"
    /\ rocket' = IF Rocket__init__Error(file) = "none"
                 THEN Rocket__init__(NewRocket, file) ELSE NewRocket
    /\ call' = [op |-> "Rocket", file |-> file, prop |-> <<>>,
                err |-> Rocket__init__Error(file), ret |-> None,
                prev |-> "none"]
    /\ pc' = "loaded"
    /\ setting_file' = file
    /\ UNCHANGED <<x, result, shown>>

LoadNext == \E file \in SettingsFiles : Load(file)

LoadSpec == LoadInit /\ [][LoadNext]_vars

(***************************************************************************)
(* A Rocket used from an importing script: settings changed in place with  *)
(* change_setting_value between resolves, and the table displayed.         *)
(***************************************************************************)
\* the sections, options and values passed to change_setting_value: "全体"
\* and every "k段" up to one the file does not have
ChangeSections(n) == {ZentaiLabel} \cup {StageLabel(k) : k \in 1 .. n + 1}

ChangeKeys(section) ==
    IF section = ZentaiLabel THEN {"payload"} ELSE {"jettison"}

ChangeValues == {Int2Q(2)}

\* settings files of one stage with a payload of 1 kg
ChangeSettings ==
    {setting \in Settings :
        Len(setting.dan) = 1 /\ setting.zentai.payload = Int2Q(1)}

ChangeInit ==
    \E setting \in ChangeSettings : Constructed(setting) /\ pc = "import"

\* rocket.change_setting_value(section, key, value)
ChangeSettingValue(section, key, value) ==
    /\ pc = "import"
    /\ \E r \in {change_setting_value(rocket, section, key, value)} :
           /\ rocket' = r.self
           /\ call' = [op |-> "change_setting_value", section |-> section,
                       key |-> key, value |-> value, prop |-> <<>>,
                       err |-> r.err, ret |-> r.ret, prev |-> "other"]
    /\ UNCHANGED <<pc, x, result, shown, setting_file>>

\* rocket.display() (lines 308-311): without a table (no calc has run yet)
\* the read of self.output_a raises AttributeError
DisplayTable ==
    /\ pc = "import"
    /\ shown' = IF rocket.output_a = Unset THEN shown ELSE display(rocket)
    /\ call' = [op |-> "display", prop |-> <<>>,
                err |-> IF rocket.output_a = Unset THEN "AttributeError"
                        ELSE "none",
                ret |-> None, prev |-> "other"]
    /\ UNCHANGED <<rocket, pc, x, result, setting_file>>

ChangeNext ==
    \/ \E prop \in PropVectors(rocket.num_stage) : Calc(prop, TRUE)
    \/ \E section \in ChangeSections(rocket.num_stage) :
           \E key \in ChangeKeys(section), value \in ChangeValues :
               ChangeSettingValue(section, key, value)
    \/ DisplayTable

ChangeSpec == ChangeInit /\ [][ChangeNext]_vars

(***************************************************************************)
(* get_deltaV_from_payload (lines 351-355) called by a payload search      *)
(* between resolves.                                                       *)
(***************************************************************************)
\* the payloads passed to get_deltaV_from_payload
PayloadValues == {Int2Q(2)}

PayloadInit ==
    \E setting \in {f \in ConsSettings : f.zentai.payload = Int2Q(1)} :
        Constructed(setting) /\ pc = "import"

\* rocket.get_deltaV_from_payload(payload, prop) on an ndarray
GetDeltaVFromPayload(payload, prop) ==
    /\ pc = "import"
    /\ \E r \in {get_deltaV_from_payload(rocket, payload, Floats(prop), TRUE)} :
           /\ rocket' = r.self
           /\ call' = [op |-> "get_deltaV_from_payload", payload |-> payload,
                       prop |-> prop, err |-> r.err, ret |-> r.ret,
                       prev |-> "other"]
    /\ UNCHANGED <<pc, x, result, shown, setting_file>>

PayloadNext ==
    \/ \E prop \in PropVectors(rocket.num_stage) : Calc(prop, TRUE)
    \/ \E payload \in PayloadValues, prop \in PropVectors(rocket.num_stage) :
           GetDeltaVFromPayload(payload, prop)

PayloadSpec == PayloadInit /\ [][PayloadNext]_vars

(***************************************************************************)
(* thickness/thickness.py: class_thickness.define_thickness on conical     *)
(* sections without dynamic pressure (Q = 0, as __main__ passes it).  The  *)
(* frame of the call (arguments and local variables) is held in call.  A   *)
(* quantity with a factor pi is held as an interval [lo, hi] of rationals  *)
(* that encloses it, from PiSquaredLower < pi^2 < PiSquaredUpper.          *)
(***************************************************************************)
PiSquaredLower == Q(986, 100)
PiSquaredUpper == Q(987, 100)

\* tan(10 deg) and tan(75 deg) lie strictly between these
Tan10Upper == Q(18, 100)
Tan75Lower == Q(37, 10)
Tan75Upper == Q(38, 10)

\* the root of a rational that is the square of a rational
SqrtInt(n) == CHOOSE r \in 0 .. n : r * r = n
QSqrt(q) == Q(SqrtInt(q.n), SqrtInt(q.d))

\* the least whole number not below a finite q >= 0
QCeil(q) == Int2Q((q.n + q.d - 1) \div q.d)

\* thickness_ceil(num, decimals) (lines 41-50)
thickness_ceil(num, decimals) ==
    QDiv(QCeil(QMul(num, Int2Q(IntPow(10, decimals)))),
         Int2Q(IntPow(10, decimals)))

\* class Material (lines 35-39)
Material(modulus_Young, ratio_Poisson, proof_stress) ==
    [modulus_Young |-> modulus_Young, ratio_Poisson |-> ratio_Poisson,
     proof_stress |-> proof_stress]

\* lines 252-254 of define_thickness
Length(f) == QSub(f.STA_end, f.STA_start)
RadiusStart(f) == QDiv(f.dia_start, Int2Q(2))
RadiusEnd(f) == QDiv(f.dia_end, Int2Q(2))
RadiusDifference(f) ==
    IF QLess(RadiusEnd(f), RadiusStart(f))
    THEN QSub(RadiusStart(f), RadiusEnd(f))
    ELSE QSub(RadiusEnd(f), RadiusStart(f))
RadiusMin(f) ==
    IF QLess(RadiusEnd(f), RadiusStart(f)) THEN RadiusEnd(f) ELSE RadiusStart(f)

\* cos(vertical_angle_rad)^2 for vertical_angle_rad = arctan2(dr, length)
\* (line 255) with length > 0: length^2 / (length^2 + dr^2)
CosSquared(f) ==
    QDiv(QMul(Length(f), Length(f)),
         QAdd(QMul(Length(f), Length(f)),
              QMul(RadiusDifference(f), RadiusDifference(f))))

\* 10 < vertical_angle_deg < 75 (line 274), decided on the tangent
AngleForNASA(f) ==
    /\ QLess(Int2Q(0), Length(f))
    /\ QLess(QMul(Tan10Upper, Length(f)), RadiusDifference(f))
    /\ QLess(RadiusDifference(f), QMul(Tan75Lower, Length(f)))

\* vertical_angle_deg >= 75 (the else branch, lines 280-283)
AngleOutOfRange(f) ==
    /\ QLess(Int2Q(0), RadiusDifference(f))
    /\ \/ ~QLess(Int2Q(0), Length(f))
       \/ QLess(QMul(Tan75Upper, Length(f)), RadiusDifference(f))

\* calc_Pcr_conical_NASA_SP8019 (lines 205-209) without its two factors pi:
\* Pcr / pi with gamma = 0.33, and Fcr / pi^2 in [N]
PcrOverPi(f, thickness) ==
    QMul(QDiv(QMul(QMul(QMul(Int2Q(2), f.material.modulus_Young),
                        QMul(thickness, thickness)),
                   CosSquared(f)),
              QSqrt(QMul(Int2Q(3),
                         QSub(Int2Q(1), QMul(f.material.ratio_Poisson,
                                             f.material.ratio_Poisson))))),
         Q(33, 100))

FcrOverPiSquared(f, thickness) ==
    QMul(QMul(QMul(PcrOverPi(f, thickness), Int2Q(2)), RadiusMin(f)),
         QMul(thickness, Int2Q(IntPow(10, 9))))

\* line 279 with rated_pressure = Q * sin^2 = 0 and pcr > 0: the interval
\* that encloses rated_force / Pcr
ValueToEvaluate(f, thickness) ==
    [lo |-> QDiv(f.rated_force,
                 QMul(PiSquaredUpper, FcrOverPiSquared(f, thickness))),
     hi |-> QDiv(f.rated_force,
                 QMul(PiSquaredLower, FcrOverPiSquared(f, thickness)))]

\* lines 259-260: the thickness and the evaluation value the loop starts from
InitialThickness == Q(1, 1000)
InitialValue == [lo |-> Int2Q(IntPow(10, 9)), hi |-> Int2Q(IntPow(10, 9))]

\* line 262
ThicknessStep == Q(1, 10000)

\* line 286
thickness_welding == Q(6, 10000)

\* the rated forces [N], sections and materials define_thickness is called
\* with: cones of 45 degrees and discs (length 0, 90 degrees)
RatedForces == {Int2Q(10)} \cup {Int2Q(100 * j) : j \in 1 .. 20}

RatingSections ==
    { [STA_start |-> Int2Q(0), STA_end |-> Int2Q(1),
       dia_start |-> Int2Q(2), dia_end |-> Int2Q(4)],
      [STA_start |-> Int2Q(1), STA_end |-> Int2Q(2),
       dia_start |-> Int2Q(4), dia_end |-> Int2Q(2)],
      [STA_start |-> Int2Q(1), STA_end |-> Int2Q(1),
       dia_start |-> Int2Q(2), dia_end |-> Int2Q(4)] }

Materials ==
    {Material(Int2Q(70), Q(1, 2), Int2Q(140)),
     Material(Int2Q(140), Q(1, 2), Int2Q(140))}

\* define_thickness entered and lines 252-260 done
DefineInit ==
    /\ \E force \in RatedForces, sec \in RatingSections, mat \in Materials :
           call = [op |-> "define_thickness", rated_force |-> force,
                   Q |-> Int2Q(0),
                   STA_start |-> sec.STA_start, STA_end |-> sec.STA_end,
                   dia_start |-> sec.dia_start, dia_end |-> sec.dia_end,
                   material |-> mat,
                   thickness |-> InitialThickness,
                   value_to_evaluate |-> InitialValue,
                   prop |-> <<>>, err |-> "none", ret |-> None,
                   prev |-> "none"]
    /\ rocket = NewRocket
    /\ pc = "while"
    /\ x = Unset
    /\ result = Unset
    /\ shown = Unset
    /\ setting_file = Unset

\* one pass of the loop body on a cone of more than 10 and less than 75
\* degrees (lines 261-262, 274-279); the loop is entered when the
\* evaluation value can be above 1
WhileBodyNASA ==
    /\ pc = "while"
    /\ QLess(Int2Q(1), call.value_to_evaluate.hi)
    /\ AngleForNASA(call)
    /\ call' = [call EXCEPT
                   !.thickness = QAdd(call.thickness, ThicknessStep),
                   !.value_to_evaluate =
                       ValueToEvaluate(call, QAdd(call.thickness, ThicknessStep))]
    /\ UNCHANGED <<rocket, pc, x, result, shown, setting_file>>

\* one pass of the loop body on a section out of range (lines 261-262,
\* 280-283)
WhileBodyOutOfRange ==
    /\ pc = "while"
    /\ QLess(Int2Q(1), call.value_to_evaluate.hi)
    /\ AngleOutOfRange(call)
    /\ call' = [call EXCEPT
                   !.thickness = QAdd(call.thickness, ThicknessStep),
                   !.err = "ValueError"]
    /\ pc' = "raised"
    /\ UNCHANGED <<rocket, x, result, shown, setting_file>>

\* the loop left, when the evaluation value can be at most 1, and the
\* thickness adjusted and returned (lines 286-289)
WhileExit ==
    /\ pc = "while"
    /\ ~QLess(Int2Q(1), call.value_to_evaluate.lo)
    /\ call' = [call EXCEPT
                   !.thickness =
                       thickness_ceil(QAdd(call.thickness, thickness_welding), 3),
                   !.ret =
                       thickness_ceil(QAdd(call.thickness, thickness_welding), 3)]
    /\ pc' = "returned"
    /\ UNCHANGED <<rocket, x, result, shown, setting_file>>

DefineNext ==
    \/ WhileBodyNASA
    \/ WhileBodyOutOfRange
    \/ WhileExit

DefineSpec == DefineInit /\ [][DefineNext]_vars

(***************************************************************************)
(* Properties.                                                             *)
(***************************************************************************)
\* a rocket freshly constructed from the same settings
Fresh == Rocket__init__(NewRocket, rocket.setting)

N == rocket.num_stage

\* the last call was method op and returned
Returned(op) == call.op = op /\ call.err = "none"

\* the last call ran a whole pass of calc over the stages and returned
Resolved == call.op \in {"calc", "deltaV", "initial_mass"} /\ call.err = "none"

\* C1  Mass closure: after a pass of calc that returned, every stage has
\* m0 = mf + consumed propellant and
\* mf = upper_mass + structural mass + residual propellant + jettison.
MassClosure ==
    Resolved =>
        \A i \in 1 .. N :
            LET sta == rocket.stages[i]
            IN  /\ sta.m0 = QAdd(sta.mf, sta.consumpsion_propellant)
                /\ sta.mf = QAdd(QAdd(QAdd(sta.upper_mass, sta.mass_stracture),
                                      sta.residual_propellant), sta.jettison)

\* a pass returned on a stage with consumed and residual propellant, a
\* jettisoned mass and something stacked on it
MassClosureWitness ==
    /\ Returned("calc")
    /\ \E i \in 1 .. N :
           LET sta == rocket.stages[i]
           IN  /\ QLess(Int2Q(0), sta.consumpsion_propellant)
               /\ QLess(Int2Q(0), sta.residual_propellant)
               /\ QLess(Int2Q(0), sta.jettison)
               /\ QLess(Int2Q(0), sta.upper_mass)

\* C2  Resolve ordering: after a pass of calc that returned, the top stage's
\* upper_mass is the payload and every lower stage's upper_mass is the m0
\* the stage above it has at the end of the pass.
ResolveOrdering ==
    Resolved =>
        /\ rocket.stages[N].upper_mass = rocket.payload
        /\ \A i \in 1 .. N - 1 :
               rocket.stages[i].upper_mass = rocket.stages[i + 1].m0

\* a three-stage pass returned with propellant in the two upper stages
ResolveOrderingWitness ==
    /\ Returned("calc")
    /\ N = 3
    /\ call.prop[2] > 0 /\ call.prop[3] > 0
    /\ QLess(rocket.stages[3].m0, rocket.stages[2].m0)
    /\ QLess(rocket.stages[2].m0, rocket.stages[1].m0)

\* C3  calc raises the shape error exactly when the length of the vector
\* differs from the number of stages; with the right length the pass starts
\* (the top stage takes its entry of the vector).
ShapeMismatch ==
    call.op = "calc" =>
        /\ (Len(call.prop) # N) <=> (call.err = "AssertionError")
        /\ (Len(call.prop) = N) =>
               rocket.stages[N].mass_prop = Int2Q(call.prop[N])

\* calc was called with a vector one entry too long and raised
ShapeMismatchWitness ==
    /\ call.op = "calc"
    /\ Len(call.prop) = N + 1
    /\ call.err = "AssertionError"

\* C4  Idempotence: a calc that returns, called right after a calc with the
\* same vector that returned, leaves the whole rocket (stage fields,
\* output_a, index_a, deltaV_sum) as it was.
Idempotence ==
    [][(/\ Returned("calc")
        /\ call'.op = "calc" /\ call'.err = "none"
        /\ call'.prop = call.prop)
       => rocket' = rocket]_vars

\* a calc on a two-stage rocket that repeats the calc before it
IdempotenceWitness ==
    /\ Returned("calc")
    /\ call.prev = "same"
    /\ N = 2
    /\ Len(rocket.output_a) = 3
    /\ call.prop[1] > 0

\* C5  No stale state: whatever came before, a calc(v) that returns leaves
\* the rocket as calc(v) leaves a freshly constructed rocket.
NoStaleState ==
    Returned("calc") =>
        \E numpy \in BOOLEAN :
            calc(Fresh, Floats(call.prop), numpy) = Return(rocket, None)

\* a calc returned after a different call on a rocket of several stages
NoStaleStateWitness ==
    /\ Returned("calc")
    /\ call.prev = "other"
    /\ N >= 2

\* C6  When minimize reports success and __main__ has finished, the table
\* shown is the one calc builds for result.x.
SnapshotOfResult ==
    (pc = "done" /\ result.success) =>
        shown = display(calc(Fresh, Floats(result.x), TRUE).self)

\* C7  A pass that resolves a stage with no propellant, nothing stacked on
\* it and nothing jettisoned (mf = 0) does not return normally.
DegenerateFlagged ==
    (call.op \in {"calc", "deltaV"} /\ Len(call.prop) = N
     /\ \E i \in 1 .. N :
            /\ call.prop[i] = 0
            /\ IsZero(rocket.stages[i].upper_mass)
            /\ IsZero(rocket.stages[i].jettison)
            /\ rocket.stages[i].mass_prop = Int2Q(0)
            /\ IsZero(rocket.stages[i].mf))
    => call.err # "none"

\* every entry of the last vector is at least 1 and the vector has the
\* right length
AboveFloor ==
    /\ call.op \in {"calc", "deltaV"}
    /\ Len(call.prop) = N
    /\ \A i \in 1 .. N : call.prop[i] >= 1

\* a velocity other than nan, inf and -inf
FiniteV(v) == v.d > 0 /\ v.n > 0

Finite(sta) ==
    /\ QLess(Int2Q(0), sta.mf)
    /\ sta.deltaV # Unset
    /\ FiniteV(sta.deltaV)

\* C8 as stated: with every entry of the vector >= 1, every stage has
\* mf > 0 and a finite deltaV after the pass.
FloorAvoidsDegeneracy ==
    (AboveFloor /\ call.err = "none") =>
        \A i \in 1 .. N : Finite(rocket.stages[i])

\* the top stage has a structure, a residual, a jettisoned mass or a payload
TopStageHasMass ==
    LET top == rocket.stages[N]
    IN  \/ QLess(top.s, Int2Q(1))
        \/ QLess(top.pc_rate, Int2Q(1))
        \/ QLess(Int2Q(0), top.jettison)
        \/ QLess(Int2Q(0), rocket.payload)

\* C8 amended: with every entry of the vector >= 1 and a top stage that has
\* s < 1, a consumption rate < 100 %, a jettisoned mass or a payload, the
\* pass returns and every stage has mf > 0 and a finite deltaV.
FloorAvoidsDegeneracyWithMass ==
    (AboveFloor /\ TopStageHasMass) =>
        /\ call.err = "none"
        /\ \A i \in 1 .. N : Finite(rocket.stages[i])

\* a pass above the floor over a top stage with s = 1 and a 100 % rate,
\* carrying a payload, below another stage
FloorWitness ==
    /\ AboveFloor /\ TopStageHasMass
    /\ N >= 2
    /\ rocket.stages[N].s = Int2Q(1)
    /\ rocket.stages[N].pc_rate = Int2Q(1)

\* the deltaV stage sta would have for propellant q, its upper_mass unchanged
DeltaVFor(sta, q) == get_deltaV(sta, Int2Q(q), TRUE).ret

\* C9 as stated: for every resolved stage with propellant p > 0, a larger
\* propellant q gives a strictly larger deltaV at the same upper_mass.
Monotonic ==
    Resolved =>
        \A i \in 1 .. N : \A q \in 1 .. MaxProp + 1 :
            (0 < call.prop[i] /\ call.prop[i] < q) =>
                VLess(rocket.stages[i].deltaV, DeltaVFor(rocket.stages[i], q))

\* something is stacked on the stage or jettisoned by it
Loaded(sta) == QLess(Int2Q(0), QAdd(sta.upper_mass, sta.jettison))

\* C9 amended: the deltaV is strictly increasing in the propellant when
\* upper_mass + jettison > 0, and does not depend on the propellant when
\* upper_mass + jettison = 0.
MonotonicWhenLoaded ==
    Resolved =>
        \A i \in 1 .. N : \A q \in 1 .. MaxProp + 1 :
            LET sta == rocket.stages[i]
            IN  (0 < call.prop[i] /\ call.prop[i] < q) =>
                    IF Loaded(sta)
                    THEN VLess(sta.deltaV, DeltaVFor(sta, q))
                    ELSE sta.deltaV = DeltaVFor(sta, q)

\* a stage carrying a payload was resolved with propellant and has gained
\* velocity
MonotonicWitness ==
    /\ Resolved
    /\ \E i \in 1 .. N :
           /\ call.prop[i] > 0
           /\ Loaded(rocket.stages[i])
           /\ VLess(VZero, rocket.stages[i].deltaV)
           /\ rocket.stages[i].s = Int2Q(1)

RECURSIVE SumDeltaV(_, _)
SumDeltaV(stages, i) ==
    IF i = 0 THEN VZero ELSE VAdd(SumDeltaV(stages, i - 1), stages[i].deltaV)

\* C10  deltaV(v) returns the magnitude of (sum of the stage deltaV) minus
\* target_deltaV: one of the two differences, never negative, and 0 exactly
\* when the sum is the target.
DeltaVMagnitude ==
    Returned("deltaV") =>
        LET sum == SumDeltaV(rocket.stages, N)
        IN  /\ call.ret \in {VSub(sum, rocket.target_deltaV),
                            VSub(rocket.target_deltaV, sum)}
            /\ ~VLess(call.ret, VZero)
            /\ (call.ret = VZero) <=> (sum = rocket.target_deltaV)

\* deltaV returned a positive value for a sum below the target
DeltaVMagnitudeWitness ==
    /\ Returned("deltaV")
    /\ VLess(SumDeltaV(rocket.stages, N), rocket.target_deltaV)
    /\ VLess(VZero, call.ret)

\* the rocket as calc leaves a freshly constructed one for the last vector
FreshlyResolved == calc(Fresh, Floats(call.prop), TRUE).self

\* C11  initial_mass(v), when it returns, returns the m0 that the bottom
\* stage has when v is resolved on a freshly constructed rocket, whatever
\* was evaluated before, and that m0 is the one the rocket holds.
InitialMassIsBottomM0 ==
    (call.op = "initial_mass" /\ call.err = "none") =>
        /\ call.ret = FreshlyResolved.stages[1].m0
        /\ call.ret = rocket.stages[1].m0

\* initial_mass returned on a two-stage rocket after another evaluation,
\* with propellant in both stages
InitialMassWitness ==
    /\ call.op = "initial_mass" /\ call.err = "none"
    /\ call.prev = "other"
    /\ N = 2
    /\ call.prop[1] > 0 /\ call.prop[2] > 0
    /\ QLess(rocket.stages[2].m0, call.ret)

\* C12  For every stage i of the vehicle there is a structural-floor
\* function, and at (v, limit) it returns the structural mass stage i has
\* when v is resolved, minus limit (so it is >= 0 exactly when the
\* structural mass is at least limit), whenever v can be resolved.
StructuralFloorEveryStage ==
    (call.op = "structural_floor" /\ Len(call.prop) = N) =>
        /\ call.err = "none"
        /\ call.ret = QSub(FreshlyResolved.stages[call.stage].mass_stracture,
                           call.limit)
        /\ ~QLess(call.ret, Int2Q(0))
               <=> ~QLess(rocket.stages[call.stage].mass_stracture, call.limit)

\* C13  The acceleration-ceiling function of a stage, when it returns for
\* (v, limit), returns limit minus the acc_cutoff the stage has when v is
\* resolved, so it is >= 0 exactly when acc_cutoff does not exceed limit.
AccelerationCeilingValue ==
    (call.op = "acceleration_ceiling" /\ call.err = "none") =>
        /\ call.ret = QSub(call.limit,
                           FreshlyResolved.stages[call.stage].acc_cutoff)
        /\ call.ret = QSub(call.limit, rocket.stages[call.stage].acc_cutoff)
        /\ ~QLess(call.ret, Int2Q(0))
               <=> ~QLess(call.limit, rocket.stages[call.stage].acc_cutoff)

\* the ceiling of the second stage returned after another evaluation, for an
\* acc_cutoff above the limit
AccelerationCeilingWitness ==
    /\ call.op = "acceleration_ceiling" /\ call.err = "none"
    /\ call.prev = "other"
    /\ call.stage = 2
    /\ QLess(call.ret, Int2Q(0))
    /\ rocket.stages[2].acc_cutoff # rocket.stages[2].acc_ignition

\* C14  After a calc that returned, deltaV_sum is the sum of the deltaV
\* the stages have at the end of the pass, each counted once, starting from
\* 0 (nan when a stage's deltaV is nan).
DeltaVSumIsSum ==
    Returned("calc") =>
        IF \E i \in 1 .. N : IsNaN(rocket.stages[i].deltaV)
        THEN IsNaN(rocket.deltaV_sum)
        ELSE rocket.deltaV_sum = SumDeltaV(rocket.stages, N)

\* a calc returned after another call, on a rocket of several stages that
\* each gained velocity
DeltaVSumWitness ==
    /\ Returned("calc")
    /\ call.prev = "other"
    /\ N >= 2
    /\ \A i \in 1 .. N : VLess(VZero, rocket.stages[i].deltaV)
    /\ VLess(rocket.stages[1].deltaV, rocket.deltaV_sum)

\* C15  After a calc that returned on an N-stage rocket the table has N + 1
\* rows: row i is the row of stage i and is labelled with i, for i = 1 .. N
\* in ascending order, and the last row is labelled as the whole vehicle and
\* carries deltaV_sum and the payload, every other cell blank.
TableRows ==
    Returned("calc") =>
        /\ Len(rocket.output_a) = N + 1
        /\ Len(rocket.index_a) = N + 1
        /\ \A i \in 1 .. N :
               /\ rocket.index_a[i] = StageLabel(i)
               /\ rocket.output_a[i] = OutputRow(rocket.stages[i])
        /\ rocket.index_a[N + 1] = ZentaiLabel
        /\ Len(rocket.output_a[N + 1]) = 25
        /\ \A c \in 1 .. 25 :
               rocket.output_a[N + 1][c] =
                   IF c = 1 THEN rocket.deltaV_sum
                   ELSE IF c = 14 THEN rocket.payload
                   ELSE Blank

\* the table of a three-stage rocket whose stages have different rows
TableRowsWitness ==
    /\ Returned("calc")
    /\ N = 3
    /\ Len(rocket.output_a) = 4
    /\ rocket.output_a[1] # rocket.output_a[2]
    /\ rocket.output_a[2] # rocket.output_a[3]
    /\ rocket.output_a[1] # rocket.output_a[3]

\* C16  When minimize returns without success the driver does not go on to
\* show or save the table of a design: nothing is displayed and to_excel is
\* not reached.
FailureNotPresented ==
    (result # Unset /\ ~result.success) =>
        /\ shown = Unset
        /\ pc \notin {"to_excel", "done"}

\* the stage of the reference scenario resolved for 1000 kg: s = 0.9,
\* consumption rate 100 %, jettison 0, Isp 300 s, upper_mass 0
Reference ==
    /\ Resolved
    /\ call.prop = <<1000>>
    /\ rocket.stages[1].s = Q(9, 10)
    /\ rocket.stages[1].pc_rate = Int2Q(1)
    /\ rocket.stages[1].jettison = Int2Q(0)
    /\ rocket.stages[1].Isp = Int2Q(300)
    /\ rocket.stages[1].upper_mass = Int2Q(0)

\* |a - b| <= tol
Within(a, b, tol) == ~QLess(tol, QSub(a, b)) /\ ~QLess(tol, QSub(b, a))

\* the masses of the reference scenario, to 0.01 kg
ReferenceMasses ==
    /\ Within(rocket.stages[1].mass_stracture, Q(11111, 100), Q(1, 100))
    /\ Within(rocket.stages[1].mf, Q(11111, 100), Q(1, 100))
    /\ Within(rocket.stages[1].m0, Q(111111, 100), Q(1, 100))

\* C18 as stated: the reference stage has structural mass 111.11 kg,
\* mf 111.11 kg, m0 1111.11 kg and a deltaV within 1 m/s of 6779 m/s.
ReferenceScenario ==
    Reference =>
        /\ ReferenceMasses
        /\ ~MsBelow(rocket.stages[1].deltaV, 6778)
        /\ ~MsAbove(rocket.stages[1].deltaV, 6780)

\* C18 amended: the reference stage has structural mass 111.11 kg,
\* mf 111.11 kg, m0 1111.11 kg and a deltaV within 1 m/s of 6774 m/s.
ReferenceScenario6774 ==
    Reference =>
        /\ ReferenceMasses
        /\ MsAbove(rocket.stages[1].deltaV, 6773)
        /\ MsBelow(rocket.stages[1].deltaV, 6775)

\* the reference stage resolved after another amount of propellant
ReferenceWitness ==
    /\ Reference
    /\ call.prev = "other"
    /\ rocket.stages[1].mass_prop = Int2Q(1000)
    /\ rocket.stages[1].deltaV = Int2Q(10)

\* two calls of get_deltaV agree: the same exception or the same returned
\* deltaV, and on return the same value in every field of the stage
SameOutcome(a, b) ==
    /\ a.err = b.err
    /\ a.ret = b.ret
    /\ a.err = "none" => a.self = b.self

\* stage i as constructed, given the upper_mass stage i has now
AsConstructed(i) ==
    set_upper_mass(Fresh.stages[i], rocket.stages[i].upper_mass)

\* C19  Stage compute is pure: in every state, for every stage and every
\* propellant, get_deltaV on the stage as its earlier calls left it gives
\* the result (fields and returned deltaV) it gives on a stage of the same
\* configuration and upper_mass that was never computed.
StagePure ==
    \A i \in 1 .. N : \A q \in 0 .. MaxProp : \A numpy \in BOOLEAN :
        SameOutcome(get_deltaV(rocket.stages[i], Int2Q(q), numpy),
                    get_deltaV(AsConstructed(i), Int2Q(q), numpy))

\* a rocket of several stages whose bottom stage was computed with
\* propellant under a load, by a call that followed a different one
StagePureWitness ==
    /\ Resolved
    /\ call.prev = "other"
    /\ N >= 2
    /\ rocket.stages[1].mass_prop = Int2Q(1)
    /\ QLess(Int2Q(0), rocket.stages[1].upper_mass)
    /\ rocket.stages[1] # AsConstructed(1)

\* the numbers k of the sections named "k段" in the file last loaded, and
\* the largest of them
Named == DOMAIN call.file.dan
Largest == MaxOf(Named \cup {0})

\* C20  A Rocket that is constructed has as many stages as the largest N
\* among the sections named "N段", one for each of 1 .. N built from its
\* section, and len(stages) = num_stage; a file that lacks the section of a
\* stage in 1 .. N raises at construction and yields no Rocket.
StageCountAgreement ==
    pc = "loaded" =>
        /\ call.err = "none" =>
               /\ rocket.num_stage = Largest
               /\ Len(rocket.stages) = rocket.num_stage
               /\ \A i \in 1 .. Largest :
                      /\ i \in Named
                      /\ rocket.stages[i] = StageOfSection(call.file.dan[i])
        /\ (\E i \in 1 .. Largest : i \notin Named) =>
               /\ call.err = "NoSectionError"
               /\ rocket = NewRocket

\* a file with the sections of stages 1 and 3 and no section of stage 2
StageCountWitness ==
    /\ pc = "loaded"
    /\ Named = {1, 3}
    /\ call.file.others = {}
    /\ call.file.zentai # Unset
    /\ call.err = "NoSectionError"

\* the value of an option in a parsed settings file
OptionOf(setting, section, key) ==
    IF section = ZentaiLabel THEN setting.zentai[key]
    ELSE setting.dan[section.dan][key]

\* C21  After change_setting_value(section, key, value) has returned, the
\* settings file on disk holds value for the option, as the parsed settings
\* of the rocket do.
SettingsFileSaved ==
    (call.op = "change_setting_value" /\ call.err = "none") =>
        /\ OptionOf(rocket.setting, call.section, call.key) = call.value
        /\ OptionOf(setting_file, call.section, call.key) = call.value

\* C22  A table that display() shows is one that calc builds under the
\* configuration the rocket has when it is shown: after
\* change_setting_value, no table or deltaV_sum resolved under the
\* configuration before the change is shown.
NoStaleResultShown ==
    (call.op = "display" /\ call.err = "none") =>
        \E prop \in PropVectors(N) :
            /\ Len(prop) = N
            /\ shown = display(calc(Fresh, Floats(prop), TRUE).self)

\* the thickness reached from trial thickness t in steps of 0.1 mm at which
\* the evaluation value of the call is at most 1
RECURSIVE RequiredThickness(_)
RequiredThickness(t) ==
    IF ~QLess(Int2Q(1), ValueToEvaluate(call, t).hi) THEN t
    ELSE RequiredThickness(QAdd(t, Q(1, 10000)))

\* C23  define_thickness returns the required thickness, found from a
\* first trial of 0.1 mm in steps of 0.1 mm, plus 0.6 mm, rounded up to a
\* whole millimetre.
ThicknessFromTenthOfMillimetre ==
    pc = "returned" =>
        call.ret = thickness_ceil(QAdd(RequiredThickness(Q(1, 10000)),
                                       Q(6, 10000)), 3)

WrongLengthChangesNothing ==
    [][(call'.op \in {"calc", "deltaV"} /\ Len(call'.prop) # rocket.num_stage)
       => (call'.err = "AssertionError" /\ rocket' = rocket)]_vars

\* a vector of the wrong length was refused on a rocket that holds the
\* table of an earlier resolve
WrongLengthWitness ==
    /\ call.op \in {"calc", "deltaV"}
    /\ Len(call.prop) = N + 1
    /\ call.err = "AssertionError"
    /\ call.prev = "other"
    /\ N >= 2
    /\ rocket.output_a # Unset
    /\ Len(rocket.output_a) = N + 1

\* C26  The first evaluations the driver's solver makes raise no shape or
\* index error, whatever the number of stages of the settings file.
DriverAgreesWithStageCount ==
    call.op \in {"initial_mass", "deltaV", "limit_stracture"} =>
        call.err \notin {"AssertionError", "IndexError"}

\* C27  After a pass of calc that returned, every stage has
\* m0 >= mf >= upper_mass, m0 does not increase from a stage to the stage
\* above it, and the bottom stage's m0 is at least the payload.
StackMassOrdering ==
    Resolved =>
        /\ \A i \in 1 .. N :
               /\ ~QLess(rocket.stages[i].m0, rocket.stages[i].mf)
               /\ ~QLess(rocket.stages[i].mf, rocket.stages[i].upper_mass)
        /\ \A i \in 1 .. N - 1 :
               ~QLess(rocket.stages[i].m0, rocket.stages[i + 1].m0)
        /\ ~QLess(rocket.stages[1].m0, rocket.payload)

\* a pass returned on a rocket of several stages with a payload, its bottom
\* stage burning propellant and heavier than the stage above it
StackMassWitness ==
    /\ Returned("calc")
    /\ N >= 2
    /\ QLess(Int2Q(0), rocket.payload)
    /\ QLess(rocket.stages[1].mf, rocket.stages[1].m0)
    /\ QLess(rocket.stages[1].upper_mass, rocket.stages[1].mf)
    /\ QLess(rocket.stages[2].m0, rocket.stages[1].m0)

\* the sum over stages 1 .. i of the stage's own full mass, m0 - upper_mass
RECURSIVE SumOwnMass(_, _)
SumOwnMass(stages, i) ==
    IF i = 0 THEN Int2Q(0)
    ELSE QAdd(SumOwnMass(stages, i - 1),
              QSub(stages[i].m0, stages[i].upper_mass))

\* C28  After a pass of calc that returned, the bottom stage's m0 is the
\* payload plus the sum of every stage's own full mass m0 - upper_mass,
\* which is the stage's propellant, structural mass and jettisoned mass.
TotalMassTelescopes ==
    Resolved =>
        /\ rocket.stages[1].m0 =
               QAdd(rocket.payload, SumOwnMass(rocket.stages, N))
        /\ \A i \in 1 .. N :
               QSub(rocket.stages[i].m0, rocket.stages[i].upper_mass) =
                   QAdd(QAdd(rocket.stages[i].mass_prop,
                             rocket.stages[i].mass_stracture),
                        rocket.stages[i].jettison)

\* a pass returned on a three-stage rocket with propellant in every stage
TotalMassWitness ==
    /\ Returned("calc")
    /\ N = 3
    /\ \A i \in 1 .. N : call.prop[i] > 0
    /\ QLess(Int2Q(0), rocket.payload)
    /\ QLess(QAdd(rocket.payload,
                  QSub(rocket.stages[1].m0, rocket.stages[1].upper_mass)),
             rocket.stages[1].m0)

\* a < b for two accelerations [G], compared as a * g0 < b * g0
AccLess(a, b) == QLess(QMul(a, g0), QMul(b, g0))

\* C29  After a pass of calc that returned, every stage with mf > 0 has
\* acc_cutoff >= acc_ignition.
CutoffAtLeastIgnition ==
    Resolved =>
        \A i \in 1 .. N :
            QLess(Int2Q(0), rocket.stages[i].mf) =>
                ~AccLess(rocket.stages[i].acc_cutoff,
                         rocket.stages[i].acc_ignition)

\* a stage ignited within the atmosphere, with a nozzle exit area, burned
\* propellant under a load and has a larger acceleration at cutoff
CutoffWitness ==
    /\ Returned("calc")
    /\ \E i \in 1 .. N :
           /\ rocket.stages[i].use_SeaLevel
           /\ QLess(Int2Q(0), rocket.stages[i].nozzle_exit_area)
           /\ QLess(rocket.stages[i].thrust_SL, rocket.stages[i].thrust)
           /\ QLess(Int2Q(0), rocket.stages[i].mf)
           /\ QLess(rocket.stages[i].mf, rocket.stages[i].m0)
           /\ AccLess(rocket.stages[i].acc_ignition,
                      rocket.stages[i].acc_cutoff)

\* the configuration of a stage: the attributes Stage.__init__ takes
ConfigOf(sta) ==
    [s |-> sta.s, pc_rate |-> sta.pc_rate, jettison |-> sta.jettison,
     Isp |-> sta.Isp, thrust |-> sta.thrust, num_engine |-> sta.num_engine,
     nozzle_exit_area |-> sta.nozzle_exit_area,
     use_SeaLevel |-> sta.use_SeaLevel]

\* C30  get_deltaV_from_payload(payload, v) leaves the rocket with that
\* payload, also when it raises, and returns or raises what deltaV(v) does
\* on a rocket constructed with that payload; a calc keeps the payload the
\* rocket has and resolves the top stage on it; no call changes
\* target_deltaV or the configuration of a stage.
PayloadOverwritten ==
    [][/\ call'.op = "get_deltaV_from_payload" =>
              /\ rocket'.payload = call'.payload
              /\ call'.err =
                     deltaV([Fresh EXCEPT !.payload = call'.payload],
                            Floats(call'.prop), TRUE).err
              /\ call'.ret =
                     deltaV([Fresh EXCEPT !.payload = call'.payload],
                            Floats(call'.prop), TRUE).ret
       /\ call'.op = "calc" =>
              /\ rocket'.payload = rocket.payload
              /\ call'.err = "none" =>
                     rocket'.stages[N].upper_mass = rocket.payload
       /\ rocket'.target_deltaV = rocket.target_deltaV
       /\ rocket'.setting = rocket.setting
       /\ \A i \in 1 .. N :
              ConfigOf(rocket'.stages[i]) = ConfigOf(Fresh.stages[i])]_vars

\* a calc resolved a two-stage rocket on a payload that an earlier
\* get_deltaV_from_payload put in place of the one of the settings file
PayloadWitness ==
    /\ Returned("calc")
    /\ N = 2
    /\ rocket.payload = Int2Q(2)
    /\ rocket.payload # rocket.setting.zentai.payload
    /\ rocket.stages[2].upper_mass = Int2Q(2)
    /\ call.prop[1] > 0 /\ call.prop[2] > 0

====
